---- MODULE Spec2Model ----
(***************************************************************************)
(* Revenue Watchdog: the record normalizer (core/data_parser.py), the      *)
(* rule engine and the analysis dispatcher (core/llm_interface.py), and    *)
(* the handlers of the application window (gui/main_window.py).            *)
(*                                                                         *)
(* Representation of Python values                                         *)
(*   number   [num |-> n]   n is the value in tenths (fixed point, Scale)  *)
(*   string   [str |-> cs]  cs is the sequence of its characters           *)
(*   dict     a function whose domain is the set of its keys               *)
(*   list     a sequence; a list that is a whole JSON document is wrapped  *)
(*            as [pylist |-> s]                                            *)
(* An operation's outcome is Return(v) or Raise(e).                        *)
(***************************************************************************)
EXTENDS Integers, Sequences, FiniteSets, TLC

VARIABLES
    api_key,    \* LLMInterface.api_key
    now,        \* the wall clock, datetime.now(), in whole days since 1970-01-01
    pdf_lib,    \* which PDF library the import at data_parser.py:17-25 found
    call,       \* the operation under way, with its arguments
    posts,      \* requests sent to the provider so far
    result,     \* the outcome of the call, Pending until it has run
    self        \* the fields of RevenueWatchdogApp, main_window.py:35-41

vars == <<api_key, now, pdf_lib, call, posts, result, self>>

----------------------------------------------------------------------------
(* Bounds of the model *)

MaxBatch == 2       \* records in one batch handed to the analysis
MaxTicks == 1       \* days the clock advances
MaxCols == 3        \* columns of a tabular file
MaxRows == 2        \* lines of a tabular file after its header
MaxAmounts == 6     \* amounts found in the text of a PDF file
MaxFiles == 2       \* files selected in one upload dialog
MaxCalls == 3       \* invocations of the rule engine in a row
MaxPosts == 1       \* requests the application sends to the provider

----------------------------------------------------------------------------
(* config.py *)

API_TIMEOUT == 30
HIGH_DISCOUNT_THRESHOLD == 20
\* 0.1, in tenths
OPPORTUNITY_COST_FACTOR == 1

----------------------------------------------------------------------------
(* Python values *)

\* tenths per unit: a float x is the integer 10 * x
Scale == 10
\* an impact is kept in 1/ImpactScale units, so that the division by 100 of
\* llm_interface.py:113 and the product with 0.1 of line 125 are exact
ImpactScale == Scale * Scale * 100

Num(n) == [num |-> n]
Str(cs) == [str |-> cs]
Whole(n) == Num(n * Scale)

IsNum(v) == DOMAIN v = {"num"}
IsStr(v) == DOMAIN v = {"str"}

Return(v) == [kind |-> "return", value |-> v]
Raise(e) == [kind |-> "raise", error |-> e]
\* an exception of class e whose text holds m
RaiseMsg(e, m) == [kind |-> "raise", error |-> e, message |-> m]
Returned(o) == o.kind = "return"
Raised(o) == o.kind = "raise"

\* dict.get(key, default)
Get(d, key, default) == IF key \in DOMAIN d THEN d[key] ELSE default

\* bool(v) of a number or a string
Truthy(v) == IF IsNum(v) THEN v.num # 0 ELSE v.str # <<>>

DigitChars == <<"0", "1", "2", "3", "4", "5", "6", "7", "8", "9">>
IsDigit(c) == \E i \in 1..10 : DigitChars[i] = c
DigitVal(c) == (CHOOSE i \in 1..10 : DigitChars[i] = c) - 1
AllDigits(cs) == \A i \in 1..Len(cs) : IsDigit(cs[i])

RECURSIVE DigitsToNat(_)
DigitsToNat(cs) ==
    IF cs = <<>> THEN 0
    ELSE 10 * DigitsToNat(SubSeq(cs, 1, Len(cs) - 1)) + DigitVal(cs[Len(cs)])

\* float(v): a number converts to itself; a string converts when it is a
\* decimal numeral, digits with at most one point (the model keeps one
\* fractional digit); any other string raises ValueError, whose text holds
\* the string.
ToFloat(v) ==
    IF IsNum(v) THEN Return(v.num)
    ELSE LET cs == v.str
             dots == {i \in 1..Len(cs) : cs[i] = "."}
         IN  IF dots = {}
             THEN IF cs # <<>> /\ AllDigits(cs)
                  THEN Return(DigitsToNat(cs) * Scale)
                  ELSE RaiseMsg("ValueError", v)
             ELSE LET p == CHOOSE i \in dots : TRUE
                      ip == SubSeq(cs, 1, p - 1)
                      fp == SubSeq(cs, p + 1, Len(cs))
                  IN  IF /\ Cardinality(dots) = 1
                         /\ AllDigits(ip) /\ AllDigits(fp)
                         /\ Len(ip) + Len(fp) > 0
                         /\ Len(fp) <= 1
                      THEN Return(DigitsToNat(ip) * Scale + DigitsToNat(fp))
                      ELSE RaiseMsg("ValueError", v)

----------------------------------------------------------------------------
(* utils/helpers.py: is_date_past *)

IsLeap(y) == (y % 4 = 0 /\ y % 100 # 0) \/ y % 400 = 0
DaysInMonth(y, m) ==
    IF m = 2 THEN (IF IsLeap(y) THEN 29 ELSE 28)
    ELSE IF m \in {4, 6, 9, 11} THEN 30 ELSE 31

\* days from 1970-01-01 to the civil date y-m-d
DaysFromCivil(y, m, d) ==
    LET yy == IF m <= 2 THEN y - 1 ELSE y
        era == yy \div 400
        yoe == yy - era * 400
        mp == (m + 9) % 12
        doy == (153 * mp + 2) \div 5 + d - 1
        doe == yoe * 365 + yoe \div 4 - yoe \div 100 + doy
    IN  era * 146097 + doe - 719468

\* pd.to_datetime(date_str) on a string: an ISO date YYYY-MM-DD gives that
\* day's midnight; a string that is no date raises.
to_datetime(v) ==
    IF ~IsStr(v) THEN Raise("TypeError")
    ELSE LET cs == v.str IN
         IF /\ Len(cs) = 10
            /\ cs[5] = "-" /\ cs[8] = "-"
            /\ AllDigits(SubSeq(cs, 1, 4))
            /\ AllDigits(SubSeq(cs, 6, 7))
            /\ AllDigits(SubSeq(cs, 9, 10))
         THEN LET y == DigitsToNat(SubSeq(cs, 1, 4))
                  m == DigitsToNat(SubSeq(cs, 6, 7))
                  d == DigitsToNat(SubSeq(cs, 9, 10))
              IN  IF y >= 1 /\ m \in 1..12 /\ d \in 1..DaysInMonth(y, m)
                  THEN Return(DaysFromCivil(y, m, d))
                  ELSE Raise("ValueError")
         ELSE Raise("ValueError")

\* is_date_past comparing with <= at helpers.py:14
is_date_past_inclusive(date_str, at) ==
    LET date_obj == to_datetime(date_str)
    IN  IF Returned(date_obj) THEN date_obj.value <= at ELSE FALSE

is_date_past(date_str, at) ==
    LET date_obj == to_datetime(date_str)
    IN  IF Returned(date_obj) THEN date_obj.value < at ELSE FALSE

----------------------------------------------------------------------------
(* core/llm_interface.py: the rule engine, LLMInterface._mock_analysis *)

Chars_Unknown == <<"U", "n", "k", "n", "o", "w", "n">>

recommendations ==
    << "Implement discount approval workflow",
       "Set up automated pipeline hygiene alerts",
       "Review pricing strategy for renewals" >>

\* the flag with the impact taken as deal_size * (threshold - discount) / 100
DiscountFlag_reversed(deal_id, deal_size, discount) ==
    [ deal_id |-> deal_id,
      risk_type |-> "unauthorized_discount",
      impact |-> deal_size * (HIGH_DISCOUNT_THRESHOLD * Scale - discount),
      suggestion |-> [ text |-> "Review {discount}% discount approval for deal {deal_id}",
                       discount |-> discount,
                       deal_id |-> deal_id ] ]

\* the flag appended at llm_interface.py:114-119
DiscountFlag(deal_id, deal_size, discount) ==
    [ deal_id |-> deal_id,
      risk_type |-> "unauthorized_discount",
      impact |-> deal_size * (discount - HIGH_DISCOUNT_THRESHOLD * Scale),
      suggestion |-> [ text |-> "Review {discount}% discount approval for deal {deal_id}",
                       discount |-> discount,
                       deal_id |-> deal_id ] ]

\* the flag appended at llm_interface.py:126-131
PipelineFlag(deal_id, deal_size) ==
    [ deal_id |-> deal_id,
      risk_type |-> "phantom_pipeline",
      impact |-> deal_size * OPPORTUNITY_COST_FACTOR * 100,
      suggestion |-> [ text |-> "Remove expired deal {deal_id} from pipeline",
                       deal_id |-> deal_id ] ]

\* the loop body with one change: cmp "ge" tests discount >= threshold at
\* line 112; order "swapped" appends the pipeline flag before the discount
\* flag; tally "partial" leaves out the += of line 132
MockStepVariant(deal, deal_size, discount, flagged_deals, total_leakage, at, cmp, order, tally) ==
    LET deal_id == Get(deal, "deal_id", Str(Chars_Unknown))
        close_date == Get(deal, "close_date", Str(<<>>))
        r1 == DiscountFlag(deal_id, deal_size, discount)
        r2 == PipelineFlag(deal_id, deal_size)
        hit1 == IF cmp = "ge" THEN discount >= HIGH_DISCOUNT_THRESHOLD * Scale
                ELSE discount > HIGH_DISCOUNT_THRESHOLD * Scale
        hit2 == Truthy(close_date) /\ is_date_past(close_date, at)
        f1 == IF hit1 THEN <<r1>> ELSE <<>>
        f2 == IF hit2 THEN <<r2>> ELSE <<>>
    IN  [ flagged_deals |->
              flagged_deals \o (IF order = "swapped" THEN f2 \o f1 ELSE f1 \o f2),
          total_leakage |->
              total_leakage + (IF hit1 THEN r1.impact ELSE 0)
                            + (IF hit2 /\ tally # "partial" THEN r2.impact ELSE 0) ]

MockStep_ge(deal, deal_size, discount, flagged_deals, total_leakage, at) ==
    MockStepVariant(deal, deal_size, discount, flagged_deals, total_leakage, at,
                    "ge", "source", "full")

MockStep_swapped(deal, deal_size, discount, flagged_deals, total_leakage, at) ==
    MockStepVariant(deal, deal_size, discount, flagged_deals, total_leakage, at,
                    "gt", "swapped", "full")

MockStep_untallied(deal, deal_size, discount, flagged_deals, total_leakage, at) ==
    MockStepVariant(deal, deal_size, discount, flagged_deals, total_leakage, at,
                    "gt", "source", "partial")

\* one iteration of the loop, llm_interface.py:111-132: the flags and the
\* running total after the discount rule, then after the pipeline rule
MockStep(deal, deal_size, discount, flagged_deals, total_leakage, at) ==
    LET deal_id == Get(deal, "deal_id", Str(Chars_Unknown))
        close_date == Get(deal, "close_date", Str(<<>>))
        r1 == DiscountFlag(deal_id, deal_size, discount)
        s1 == IF discount > HIGH_DISCOUNT_THRESHOLD * Scale
              THEN [ flagged_deals |-> Append(flagged_deals, r1),
                     total_leakage |-> total_leakage + r1.impact ]
              ELSE [ flagged_deals |-> flagged_deals,
                     total_leakage |-> total_leakage ]
        r2 == PipelineFlag(deal_id, deal_size)
    IN  IF Truthy(close_date) /\ is_date_past(close_date, at)
        THEN [ flagged_deals |-> Append(s1.flagged_deals, r2),
               total_leakage |-> s1.total_leakage + r2.impact ]
        ELSE s1

\* the loop ending with advice for the rules that flagged something only
RECURSIVE MockLoop_advising(_, _, _, _, _)
MockLoop_advising(parsed_data, i, flagged_deals, total_leakage, at) ==
    IF i > Len(parsed_data)
    THEN Return([ summary |-> [ total_leakage |-> total_leakage,
                                high_risk_deals |-> Len(flagged_deals),
                                issues_found |-> Len(flagged_deals) ],
                  flagged_deals |-> flagged_deals,
                  recommendations |->
                      (IF \E k \in 1..Len(flagged_deals) :
                              flagged_deals[k].risk_type = "unauthorized_discount"
                       THEN <<recommendations[1]>> ELSE <<>>)
                      \o (IF \E k \in 1..Len(flagged_deals) :
                                 flagged_deals[k].risk_type = "phantom_pipeline"
                          THEN <<recommendations[2]>> ELSE <<>>)
                      \o <<recommendations[3]>> ])
    ELSE LET deal == parsed_data[i]
             deal_size == ToFloat(Get(deal, "deal_size", Whole(0)))
             discount == ToFloat(Get(deal, "discount_percent", Whole(0)))
         IN  IF Raised(deal_size) THEN deal_size
             ELSE IF Raised(discount) THEN discount
             ELSE LET s == MockStep(deal, deal_size.value, discount.value,
                                    flagged_deals, total_leakage, at)
                  IN  MockLoop_advising(parsed_data, i + 1, s.flagged_deals,
                                        s.total_leakage, at)

\* the loop passing over a record whose numbers do not coerce
RECURSIVE MockLoop_skipping(_, _, _, _, _)
MockLoop_skipping(parsed_data, i, flagged_deals, total_leakage, at) ==
    IF i > Len(parsed_data)
    THEN Return([ summary |-> [ total_leakage |-> total_leakage,
                                high_risk_deals |-> Len(flagged_deals),
                                issues_found |-> Len(flagged_deals) ],
                  flagged_deals |-> flagged_deals,
                  recommendations |-> recommendations ])
    ELSE LET deal == parsed_data[i]
             deal_size == ToFloat(Get(deal, "deal_size", Whole(0)))
             discount == ToFloat(Get(deal, "discount_percent", Whole(0)))
         IN  IF Raised(deal_size) \/ Raised(discount)
             THEN MockLoop_skipping(parsed_data, i + 1, flagged_deals,
                                    total_leakage, at)
             ELSE LET s == MockStep(deal, deal_size.value, discount.value,
                                    flagged_deals, total_leakage, at)
                  IN  MockLoop_skipping(parsed_data, i + 1, s.flagged_deals,
                                        s.total_leakage, at)

\* the loop of llm_interface.py:105-132 from record i on, with the flags
\* and the running total of the records before it, and the report built
\* at lines 134-146 when the loop ends
RECURSIVE MockLoop(_, _, _, _, _)
MockLoop(parsed_data, i, flagged_deals, total_leakage, at) ==
    IF i > Len(parsed_data)
    THEN Return([ summary |-> [ total_leakage |-> total_leakage,
                                high_risk_deals |-> Len(flagged_deals),
                                issues_found |-> Len(flagged_deals) ],
                  flagged_deals |-> flagged_deals,
                  recommendations |-> recommendations ])
    ELSE LET deal == parsed_data[i]
             deal_size == ToFloat(Get(deal, "deal_size", Whole(0)))
             discount == ToFloat(Get(deal, "discount_percent", Whole(0)))
         IN  IF Raised(deal_size) THEN deal_size
             ELSE IF Raised(discount) THEN discount
             ELSE LET s == MockStep(deal, deal_size.value, discount.value,
                                    flagged_deals, total_leakage, at)
                  IN  MockLoop(parsed_data, i + 1, s.flagged_deals,
                               s.total_leakage, at)

\* an engine whose flagged_deals and total_leakage outlive the invocation:
\* it starts from those of the report it returned last
mock_analysis_accumulating(parsed_data, at) ==
    IF call.op = "mock_analysis" /\ Returned(result)
    THEN MockLoop(parsed_data, 1, result.value.flagged_deals,
                  result.value.summary.total_leakage, at)
    ELSE MockLoop(parsed_data, 1, <<>>, 0, at)

\* _mock_analysis, llm_interface.py:100-146; flagged_deals and total_leakage
\* are locals, set to [] and 0 at lines 102-103
mock_analysis(parsed_data, at) == MockLoop(parsed_data, 1, <<>>, 0, at)

----------------------------------------------------------------------------
(* core/llm_interface.py: the dispatcher, LLMInterface.analyze_deals *)

\* The provider's side of one call is
\*   [net, latency, status_code, body]
\* net: "ok" or the transport error; latency: seconds until the answer;
\* body: [text |-> t] when the body is no JSON document, [json |-> d] when
\* it is the JSON object d.  A message's content is [text |-> t] (a string)
\* or [null |-> TRUE].

\* requests.post(..., timeout=API_TIMEOUT), llm_interface.py:44-57
Post(provider) ==
    IF provider.net # "ok" THEN Raise(provider.net)
    ELSE IF provider.latency > API_TIMEOUT THEN Raise("Timeout")
    ELSE Return([status_code |-> provider.status_code, body |-> provider.body])

\* response.json(), llm_interface.py:60
ResponseJson(response) ==
    IF "json" \in DOMAIN response.body
    THEN Return(response.body.json)
    ELSE Raise("JSONDecodeError")

\* result['choices'][0]['message']['content'], llm_interface.py:61
ContentOf(res) ==
    IF "choices" \notin DOMAIN res THEN Raise("KeyError")
    ELSE IF Len(res.choices) = 0 THEN Raise("IndexError")
    ELSE IF "message" \notin DOMAIN res.choices[1] THEN Raise("KeyError")
    ELSE IF "content" \notin DOMAIN res.choices[1].message THEN Raise("KeyError")
    ELSE Return(res.choices[1].message.content)

\* the report a provider that follows the prompt sends back
ProviderReport ==
    [ summary |-> [ total_leakage |-> 5000 * ImpactScale,
                    high_risk_deals |-> 1,
                    issues_found |-> 1 ],
      flagged_deals |-> << [ deal_id |-> Str(<<"1", "2", "3">>),
                             risk_type |-> "unauthorized_discount",
                             impact |-> 5000 * ImpactScale,
                             suggestion |-> [ text |-> "Review approval process" ] ] >>,
      recommendations |-> << "action1", "action2" >> ]

\* json.loads(content), llm_interface.py:65, on the documents of the model
json_loads(content) ==
    IF "text" \notin DOMAIN content THEN Raise("TypeError")
    ELSE CASE content.text = "<report>" -> Return(ProviderReport)
           [] content.text = "[]" -> Return([pylist |-> <<>>])
           [] content.text = "42" -> Return(Whole(42))
           [] content.text = "{}" -> Return(<<>>)
           [] content.text = "{\"leaks\": []}" -> Return([leaks |-> <<>>])
           [] OTHER -> Raise("JSONDecodeError")

\* llm_interface.py:148-151
parse_llm_response(content, parsed_data, at) == mock_analysis(parsed_data, at)

\* the try block, llm_interface.py:44-71
TryProvider(parsed_data, provider, at) ==
    LET response == Post(provider) IN
    IF Raised(response) THEN response
    ELSE IF response.value.status_code = 200
    THEN LET res == ResponseJson(response.value) IN
         IF Raised(res) THEN res
         ELSE LET content == ContentOf(res.value) IN
              IF Raised(content) THEN content
              ELSE LET loaded == json_loads(content.value) IN
                   IF Returned(loaded) THEN loaded
                   ELSE IF loaded.error = "JSONDecodeError"
                   THEN parse_llm_response(content.value, parsed_data, at)
                   ELSE loaded
    ELSE mock_analysis(parsed_data, at)

\* analyze_deals without the handler of llm_interface.py:73-75
analyze_deals_uncaught(key, parsed_data, provider, at) ==
    IF key = ""
    THEN [outcome |-> mock_analysis(parsed_data, at), posts |-> 0]
    ELSE [outcome |-> TryProvider(parsed_data, provider, at), posts |-> 1]

\* analyze_deals without the credential test of llm_interface.py:38-39
analyze_deals_unguarded(key, parsed_data, provider, at) ==
    LET tried == TryProvider(parsed_data, provider, at)
    IN  [ outcome |-> IF Raised(tried)
                      THEN mock_analysis(parsed_data, at)
                      ELSE tried,
          posts |-> 1 ]

\* analyze_deals, llm_interface.py:24-75: its outcome and the number of
\* requests it sent to the provider
analyze_deals(key, parsed_data, provider, at) ==
    IF key = ""
    THEN [outcome |-> mock_analysis(parsed_data, at), posts |-> 0]
    ELSE LET tried == TryProvider(parsed_data, provider, at)
         IN  [ outcome |-> IF Raised(tried)
                           THEN mock_analysis(parsed_data, at)
                           ELSE tried,
               posts |-> 1 ]

----------------------------------------------------------------------------
(* config.py: the schema registry *)

MAX_PDF_AMOUNTS == 5
MIN_DEAL_AMOUNT == 1000

SUPPORTED_FORMATS == <<".csv", ".txt", ".pdf">>

\* COLUMN_MAPPING, in the order its items() are iterated
COLUMN_MAPPING ==
    << <<"customer", "customer_name">>,
       <<"client", "customer_name">>,
       <<"account", "customer_name">>,
       <<"deal_value", "deal_size">>,
       <<"contract_value", "deal_size">>,
       <<"amount", "deal_size">>,
       <<"discount", "discount_percent">>,
       <<"disc_%", "discount_percent">>,
       <<"price", "unit_price">>,
       <<"renewal_date", "renewal">>,
       <<"close", "close_date">>,
       <<"status", "deal_status">> >>

\* str(i), and i formatted as {i:0<width>d}
RECURSIVE NatDigits(_)
NatDigits(i) ==
    IF i < 10 THEN <<DigitChars[i + 1]>>
    ELSE Append(NatDigits(i \div 10), DigitChars[(i % 10) + 1])

ZeroPad(i, width) ==
    LET ds == NatDigits(i)
    IN  IF Len(ds) >= width THEN ds
        ELSE [k \in 1..(width - Len(ds)) |-> "0"] \o ds

\* a generator that counts the rows from 1
DealIdDefault_from1(i) == Str(<<"D", "E", "A", "L", "_">> \o ZeroPad(i + 1, 4))

\* lambda i: f"DEAL_{i:04d}", config.py:32
DealIdDefault(i) == Str(<<"D", "E", "A", "L", "_">> \o ZeroPad(i, 4))

\* STANDARD_FIELDS, in the order its items() are iterated
STANDARD_FIELDS ==
    << [field |-> "deal_id", callable |-> TRUE],
       [field |-> "customer_name", callable |-> FALSE,
        default |-> Str(<<"U", "n", "k", "n", "o", "w", "n", " ",
                          "C", "u", "s", "t", "o", "m", "e", "r">>)],
       [field |-> "deal_size", callable |-> FALSE, default |-> Whole(0)],
       [field |-> "discount_percent", callable |-> FALSE, default |-> Whole(0)],
       [field |-> "close_date", callable |-> FALSE, default |-> Str(<<>>)],
       [field |-> "renewal", callable |-> FALSE, default |-> Str(<<>>)],
       [field |-> "deal_status", callable |-> FALSE,
        default |-> Str(<<"O", "p", "e", "n">>)] >>

----------------------------------------------------------------------------
(* core/data_parser.py *)

\* A DataFrame is [columns |-> the column names in order (pandas allows a
\* name twice), rows |-> the rows, each the sequence of its cells].

InColumns(df, col) == \E i \in 1..Len(df.columns) : df.columns[i] = col

\* col.lower().replace(' ', '_'), data_parser.py:55, on the column names of
\* the model
NormalizeName(col) ==
    CASE col = "Customer" -> "customer"
      [] col = "Deal Size" -> "deal_size"
      [] col = "Close" -> "close"
      [] col = "Deal ID" -> "deal_id"
      [] OTHER -> col

\* a rename that leaves the columns as they are
Rename_kept(df, old_col, new_col) == df

\* df.rename(columns={old_col: new_col}, inplace=True)
Rename(df, old_col, new_col) ==
    [df EXCEPT !.columns = [i \in 1..Len(df.columns) |->
                               IF df.columns[i] = old_col THEN new_col
                               ELSE df.columns[i]]]

\* the alias loop going through COLUMN_MAPPING from its last item to its first
RECURSIVE MapAliases_backwards(_, _)
MapAliases_backwards(df, k) ==
    IF k > Len(COLUMN_MAPPING) THEN df
    ELSE LET old_col == COLUMN_MAPPING[Len(COLUMN_MAPPING) + 1 - k][1]
             new_col == COLUMN_MAPPING[Len(COLUMN_MAPPING) + 1 - k][2]
         IN  IF InColumns(df, old_col) /\ ~InColumns(df, new_col)
             THEN MapAliases_backwards(Rename(df, old_col, new_col), k + 1)
             ELSE MapAliases_backwards(df, k + 1)

\* the alias loop without the test `new_col not in df.columns` of line 59
RECURSIVE MapAliases_unguarded(_, _)
MapAliases_unguarded(df, k) ==
    IF k > Len(COLUMN_MAPPING) THEN df
    ELSE LET old_col == COLUMN_MAPPING[k][1]
             new_col == COLUMN_MAPPING[k][2]
         IN  IF InColumns(df, old_col)
             THEN MapAliases_unguarded(Rename(df, old_col, new_col), k + 1)
             ELSE MapAliases_unguarded(df, k + 1)

\* the loop of data_parser.py:58-60 from item k of COLUMN_MAPPING on
RECURSIVE MapAliases(_, _)
MapAliases(df, k) ==
    IF k > Len(COLUMN_MAPPING) THEN df
    ELSE LET old_col == COLUMN_MAPPING[k][1]
             new_col == COLUMN_MAPPING[k][2]
         IN  IF InColumns(df, old_col) /\ ~InColumns(df, new_col)
             THEN MapAliases(Rename(df, old_col, new_col), k + 1)
             ELSE MapAliases(df, k + 1)

\* df[field] = values, for a field that is no column yet
AddColumn(df, field, values) ==
    [ columns |-> Append(df.columns, field),
      rows |-> [r \in 1..Len(df.rows) |-> Append(df.rows[r], values[r])] ]

\* the default loop without the callable branch of lines 65-66
RECURSIVE FillDefaults_constants(_, _)
FillDefaults_constants(df, k) ==
    IF k > Len(STANDARD_FIELDS) THEN df
    ELSE LET item == STANDARD_FIELDS[k]
         IN  IF ~InColumns(df, item.field) /\ ~item.callable
             THEN FillDefaults_constants(
                      AddColumn(df, item.field,
                                [r \in 1..Len(df.rows) |-> item.default]),
                      k + 1)
             ELSE FillDefaults_constants(df, k + 1)

\* the default loop setting every constant default, whether or not the
\* column is there
RECURSIVE FillDefaults_overwriting(_, _)
FillDefaults_overwriting(df, k) ==
    IF k > Len(STANDARD_FIELDS) THEN df
    ELSE LET item == STANDARD_FIELDS[k]
         IN  IF item.callable
             THEN IF ~InColumns(df, item.field)
                  THEN FillDefaults_overwriting(
                           AddColumn(df, item.field,
                                     [r \in 1..Len(df.rows) |-> DealIdDefault(r - 1)]),
                           k + 1)
                  ELSE FillDefaults_overwriting(df, k + 1)
             ELSE FillDefaults_overwriting(
                      AddColumn(df, item.field,
                                [r \in 1..Len(df.rows) |-> item.default]),
                      k + 1)

\* the loop of data_parser.py:63-68 from item k of STANDARD_FIELDS on
RECURSIVE FillDefaults(_, _)
FillDefaults(df, k) ==
    IF k > Len(STANDARD_FIELDS) THEN df
    ELSE LET item == STANDARD_FIELDS[k]
         IN  IF ~InColumns(df, item.field)
             THEN IF item.callable
                  THEN FillDefaults(
                           AddColumn(df, item.field,
                                     [r \in 1..Len(df.rows) |-> DealIdDefault(r - 1)]),
                           k + 1)
                  ELSE FillDefaults(
                           AddColumn(df, item.field,
                                     [r \in 1..Len(df.rows) |-> item.default]),
                           k + 1)
             ELSE FillDefaults(df, k + 1)

\* the records with the last row first
to_dict_reversed(df) ==
    [r \in 1..Len(df.rows) |->
        [c \in {df.columns[i] : i \in 1..Len(df.columns)} |->
            df.rows[Len(df.rows) + 1 - r]
                   [CHOOSE i \in 1..Len(df.columns) : df.columns[i] = c]]]

\* df.to_dict('records'): one dict per row; of several columns of one name
\* the last one gives the value
to_dict(df) ==
    LET names == {df.columns[i] : i \in 1..Len(df.columns)}
        lastOf(c) == CHOOSE i \in 1..Len(df.columns) :
                         /\ df.columns[i] = c
                         /\ \A j \in 1..Len(df.columns) : df.columns[j] = c => j <= i
    IN  [r \in 1..Len(df.rows) |-> [c \in names |-> df.rows[r][lastOf(c)]]]

\* The content of a tabular file is [header, nrows, delim, wellformed]:
\* the names of its first line, the number of lines after it, the delimiter
\* ("," or "\t", or "none" for running text) and whether every line has as
\* many cells as the header.  The cell of column col in line r; the cells of
\* a column Deal ID are the same in every line, the cell of customer_name
\* in the second line is empty, which pandas reads as NaN, and the cells of
\* a column Close are the date 2020-01-01:
NaN == [nan |-> TRUE]

Cell(col, r) ==
    IF col = "Deal ID" THEN Str(<<"A", "-", "1">>)
    ELSE IF col = "customer_name" /\ r = 2 THEN NaN
    ELSE IF col = "Close"
    THEN Str(<<"2", "0", "2", "0", "-", "0", "1", "-", "0", "1">>)
    ELSE IF col \in {"amount", "Deal Size", "deal_size"}
    THEN Whole(1000 * r + (CHOOSE k \in 1..3 :
                              <<"amount", "Deal Size", "deal_size">>[k] = col))
    ELSE Str(<<col, DigitChars[r + 1]>>)

\* pd.read_csv(file_path), data_parser.py:52
read_csv(content) ==
    IF content.header = <<>> THEN Raise("EmptyDataError")
    ELSE IF ~content.wellformed THEN Raise("ParserError")
    ELSE Return([ columns |-> content.header,
                  rows |-> [r \in 1..content.nrows |->
                               [c \in 1..Len(content.header) |->
                                   Cell(content.header[c], r)]] ])

\* the normalizer, data_parser.py:54-70, on a DataFrame just read
Normalize(df) ==
    LET named == [df EXCEPT !.columns = [i \in 1..Len(df.columns) |->
                                            NormalizeName(df.columns[i])]]
    IN  to_dict(FillDefaults(MapAliases(named, 1), 1))

parse_csv(content) ==
    LET df == read_csv(content)
    IN  IF Raised(df) THEN df ELSE Return(Normalize(df.value))

\* the record of data_parser.py:98-106
TxtDummy ==
    [ deal_id |-> Str(<<"T", "X", "T", "_", "0", "0", "1">>),
      customer_name |-> Str(<<"F", "r", "o", "m", " ", "T", "e", "x", "t", " ",
                              "F", "i", "l", "e">>),
      deal_size |-> Whole(10000),
      discount_percent |-> Whole(0),
      close_date |-> Str(<<>>),
      renewal |-> Str(<<>>),
      deal_status |-> Str(<<"I", "m", "p", "o", "r", "t", "e", "d", " ", "f", "r",
                            "o", "m", " ", "T", "e", "x", "t">>) ]

\* _parse_txt, data_parser.py:72-106.  The stripped content splits into
\* 1 + nrows lines; its first line holds the delimiter when the header has
\* two names or more.
parse_txt(content) ==
    LET nlines == 1 + content.nrows
        sniffed == content.delim \in {",", "\t"} /\ Len(content.header) >= 2
    IN  IF nlines > 1 /\ sniffed
        THEN parse_csv(content)
        ELSE Return(<<TxtDummy>>)

\* the records of data_parser.py:140-148 and 152-160
PdfDeal(i, clean_amount) ==
    [ deal_id |-> Str(<<"P", "D", "F", "_">> \o ZeroPad(i + 1, 3)),
      customer_name |-> Str(<<"P", "D", "F", " ", "C", "u", "s", "t", "o", "m",
                              "e", "r", " ">> \o NatDigits(i + 1)),
      deal_size |-> Num(clean_amount),
      discount_percent |-> Whole(0),
      close_date |-> Str(<<>>),
      renewal |-> Str(<<>>),
      deal_status |-> Str(<<"E", "x", "t", "r", "a", "c", "t", "e", "d", " ", "f",
                            "r", "o", "m", " ", "P", "D", "F">>) ]

PdfFallback ==
    [ deal_id |-> Str(<<"P", "D", "F", "_", "0", "0", "1">>),
      customer_name |-> Str(<<"P", "D", "F", " ", "I", "m", "p", "o", "r", "t">>),
      deal_size |-> Whole(50000),
      discount_percent |-> Whole(0),
      close_date |-> Str(<<>>),
      renewal |-> Str(<<>>),
      deal_status |-> Str(<<"P", "D", "F", " ", "C", "o", "n", "t", "e", "n", "t">>) ]

\* the loop of data_parser.py:137-148 over amounts[:MAX_PDF_AMOUNTS], from
\* the amount at index i (counted from 0) on
RECURSIVE PdfDeals(_, _, _)
PdfDeals(amounts, i, deals) ==
    IF i >= Len(amounts) \/ i >= MAX_PDF_AMOUNTS THEN deals
    ELSE LET clean_amount == amounts[i + 1]
         IN  IF clean_amount > MIN_DEAL_AMOUNT * Scale
             THEN PdfDeals(amounts, i + 1, Append(deals, PdfDeal(i, clean_amount)))
             ELSE PdfDeals(amounts, i + 1, deals)

\* _parse_pdf, data_parser.py:108-162.  The content of a PDF file is
\* [readable, amounts]: whether PyPDF2 reads it, and the amounts the
\* pattern of line 133 finds in its text, in tenths.
parse_pdf(lib, content) ==
    IF lib = "none" THEN Raise("Exception")
    ELSE IF lib = "PyPDF2" /\ ~content.readable THEN Raise("Exception")
    ELSE LET amounts == IF lib = "PyPDF2" THEN content.amounts ELSE <<>>
             deals == PdfDeals(amounts, 0, <<>>)
         IN  IF deals = <<>> THEN Return(<<PdfFallback>>) ELSE Return(deals)

\* Path(file_path).suffix.lower(), on the suffixes of the model
SuffixLower(file_path) ==
    CASE file_path.suffix = ".CSV" -> ".csv"
      [] file_path.suffix = ".Txt" -> ".txt"
      [] OTHER -> file_path.suffix

\* parse_file, data_parser.py:34-48; a file is [name, suffix, content]
parse_file(lib, file_path) ==
    LET file_ext == SuffixLower(file_path)
        parsed == CASE file_ext = ".csv" -> parse_csv(file_path.content)
                    [] file_ext = ".txt" -> parse_txt(file_path.content)
                    [] file_ext = ".pdf" -> parse_pdf(lib, file_path.content)
                    [] OTHER -> Raise("ValueError")
    IN  IF Raised(parsed)
        THEN RaiseMsg("Exception", <<"Error parsing ", file_path.name, parsed.error>>)
        ELSE parsed

----------------------------------------------------------------------------
(* The inputs of the analysis *)

Pending == [kind |-> "pending"]

\* RevenueWatchdogApp after __init__, main_window.py:35-41, with the texts
\* of the status bar, of the file label and of the summary pane, lines 165,
\* 174 and 205
NewApp ==
    [ parsed_data |-> <<>>,
      analysis_results |-> <<>>,
      api_configured |-> FALSE,
      analysis_in_progress |-> FALSE,
      status_var |-> "Ready - Configure API key and upload files to begin",
      file_info_label |-> [text |-> ""],
      summary_text |-> [text |-> ""] ]

Chars(n) == CASE n = "A1" -> <<"A", "1">>
              [] n = "B2" -> <<"B", "2">>
              [] n = "abc" -> <<"a", "b", "c">>
              [] n = "x" -> <<"x">>
              [] n = "500" -> <<"5", "0", "0">>
              [] n = "25" -> <<"2", "5">>
              [] n = "20.5" -> <<"2", "0", ".", "5">>
              [] n = "n/a" -> <<"n", "/", "a">>
              [] n = "2020-01-01" -> <<"2", "0", "2", "0", "-", "0", "1", "-", "0", "1">>
              [] n = "2026-11-02" -> <<"2", "0", "2", "6", "-", "1", "1", "-", "0", "2">>
              [] n = "2026-11-03" -> <<"2", "0", "2", "6", "-", "1", "1", "-", "0", "3">>
              [] n = "2026-13-01" -> <<"2", "0", "2", "6", "-", "1", "3", "-", "0", "1">>

\* the clock when a behaviour starts: 2026-11-02
Now0 == DaysFromCivil(2026, 11, 2)

Deal(deal_id, deal_size, discount_percent, close_date) ==
    [ deal_id |-> deal_id, deal_size |-> deal_size,
      discount_percent |-> discount_percent, close_date |-> close_date ]

DealPool ==
    { Deal(Str(Chars("A1")), Whole(10000), Whole(30), Str(Chars("2020-01-01"))),
      Deal(Str(Chars("A1")), Str(Chars("abc")), Whole(30), Str(Chars("2020-01-01"))),
      Deal(Str(Chars("A1")), Whole(1000), Whole(20), Str(Chars("2026-11-02"))),
      Deal(Str(Chars("B2")), Whole(1000), Num(20 * Scale + 1), Str(Chars("2026-11-03"))),
      Deal(Str(Chars("B2")), Whole(1000), Str(Chars("x")), Str(Chars("2026-13-01"))),
      Deal(Str(Chars("B2")), Str(Chars("n/a")), Str(Chars("x")), Str(<<>>)),
      Deal(Str(Chars("B2")), Str(Chars("500")), Str(Chars("25")), Str(Chars("n/a"))),
      Deal(Whole(7), Str(Chars("20.5")), Str(Chars("20.5")), Str(<<>>)),
      Deal(Str(Chars("A1")), Whole(0 - 100), Whole(30), Str(Chars("2020-01-01"))),
      [ deal_size |-> Whole(100), discount_percent |-> Whole(50),
        close_date |-> Str(Chars("2020-01-01")) ],
      [ deal_id |-> Str(Chars("B2")), customer_name |-> Str(Chars("abc")) ] }

RECURSIVE SeqsUpTo(_, _)
SeqsUpTo(S, n) ==
    IF n = 0 THEN {<<>>}
    ELSE LET shorter == SeqsUpTo(S, n - 1)
         IN  shorter \cup {Append(q, x) : q \in shorter, x \in S}

Batches == SeqsUpTo(DealPool, MaxBatch)

Text(t) == [text |-> t]
Chat(content) == [json |-> [choices |-> <<[message |-> [content |-> content]]>>]]

Contents ==
    { Text("<report>"), Text("[]"), Text("42"), Text("{}"), Text("{\"leaks\": []}"),
      Text("Here are the leak points I found"), Text(""), [null |-> TRUE] }

Bodies ==
    {Chat(c) : c \in Contents}
    \cup { Text("<html>Bad Gateway</html>"),
           [json |-> [error |-> Text("rate limited")]],
           [json |-> [choices |-> <<>>]],
           [json |-> [choices |-> <<[finish_reason |-> Text("length")]>>]] }

Answer(status_code, body) ==
    [net |-> "ok", latency |-> 1, status_code |-> status_code, body |-> body]

Providers ==
    {Answer(200, b) : b \in Bodies}
    \cup { Answer(500, Chat(Text("<report>"))),
           Answer(401, [json |-> [error |-> Text("unauthorized")]]),
           [Answer(200, Chat(Text("<report>"))) EXCEPT !.net = "ConnectionError"],
           [Answer(200, Chat(Text("<report>"))) EXCEPT !.latency = API_TIMEOUT + 1] }

NoProvider == Answer(0, Text(""))

ApiKeys == {"", "sk-or-v1"}

\* nth counts the invocations of the rule engine
Calls ==
    [op : {"analyze_deals"}, parsed_data : Batches, provider : Providers]
    \cup [op : {"mock_analysis"}, parsed_data : Batches, provider : {NoProvider},
          nth : {1}]

\* the batch with its first record moved to the end
Rotate(batch) == IF batch = <<>> THEN batch ELSE Append(Tail(batch), Head(batch))

----------------------------------------------------------------------------
(* The dispatcher and the rule engine, called once on every input *)

\* the credential matters to analyze_deals only; the rule engine is called
\* directly with none set
Init ==
    /\ api_key \in ApiKeys
    /\ now = Now0
    /\ pdf_lib = "PyPDF2"
    /\ call \in Calls
    /\ call.op = "mock_analysis" => api_key = ""
    /\ posts = 0
    /\ result = Pending
    /\ self = NewApp

\* time passes before the call is made
Tick ==
    /\ result = Pending
    /\ now < Now0 + MaxTicks
    /\ now' = now + 1
    /\ UNCHANGED <<api_key, pdf_lib, call, posts, result, self>>

AnalyzeDeals ==
    /\ result = Pending
    /\ call.op = "analyze_deals"
    /\ LET r == analyze_deals(api_key, call.parsed_data, call.provider, now)
       IN  /\ result' = r.outcome
           /\ posts' = posts + r.posts
    /\ UNCHANGED <<api_key, now, pdf_lib, call, self>>

MockAnalysis ==
    /\ result = Pending
    /\ call.op = "mock_analysis"
    /\ result' = mock_analysis(call.parsed_data, now)
    /\ UNCHANGED <<api_key, now, pdf_lib, call, posts, self>>

\* the rule engine is invoked once more, on the same batch or on another one
MockAnalysisAgain ==
    /\ result # Pending
    /\ call.op = "mock_analysis"
    /\ call.nth < MaxCalls
    /\ \E batch \in {call.parsed_data, Rotate(call.parsed_data)} :
           /\ call' = [call EXCEPT !.parsed_data = batch, !.nth = @ + 1]
           /\ result' = mock_analysis(batch, now)
    /\ UNCHANGED <<api_key, now, pdf_lib, posts, self>>

Next == Tick \/ AnalyzeDeals \/ MockAnalysis \/ MockAnalysisAgain

Spec == Init /\ [][Next]_vars

----------------------------------------------------------------------------
(* Properties of the dispatcher *)

Done(op) == call.op = op /\ result # Pending

\* a value with the three parts of an Analysis Report
IsReport(v) == {"summary", "flagged_deals", "recommendations"} \subseteq DOMAIN v

\* the provider did not deliver a message content: transport error, timeout,
\* status other than 200, or an answer without choices/message/content
ProviderFailed(p) ==
    \/ Raised(Post(p))
    \/ p.status_code # 200
    \/ Raised(ResponseJson(Post(p).value))
    \/ Raised(ContentOf(p.body.json))

\* the provider delivered content that is valid JSON but no Analysis Report
ValidButMisshapen(p) ==
    /\ ~ProviderFailed(p)
    /\ Returned(json_loads(ContentOf(p.body.json).value))
    /\ ~IsReport(json_loads(ContentOf(p.body.json).value).value)

\* C1: analyze_deals never raises and always returns a value with summary,
\* flagged_deals and recommendations, whatever the batch and the provider do.
C1_AlwaysUsableReport ==
    Done("analyze_deals") => Returned(result) /\ IsReport(result.value)

\* C2: with a credential, a 200 answer whose content is valid JSON but not
\* shaped like a report makes analyze_deals return the rule engine's outcome
\* for the same records, not the provider's content.
C2_MisshapenFallsBack ==
    (Done("analyze_deals") /\ api_key # "" /\ ValidButMisshapen(call.provider))
        => result = mock_analysis(call.parsed_data, now)

\* C3: with a credential, any provider failure (transport exception, timeout
\* after API_TIMEOUT, status other than 200, answer without the
\* choices/message/content path) makes analyze_deals end as the rule engine
\* ends on those records, and never with the provider's error.
C3_ProviderFailureFallsBack ==
    (Done("analyze_deals") /\ api_key # "" /\ ProviderFailed(call.provider))
        => /\ result = mock_analysis(call.parsed_data, now)
           /\ Raised(result) => result.error = "ValueError"

C3_Witness ==
    /\ Done("analyze_deals") /\ api_key # ""
    /\ Raised(Post(call.provider)) /\ Post(call.provider).error = "Timeout"
    /\ Returned(result) /\ IsReport(result.value)
    /\ Len(result.value.flagged_deals) = 2

\* C4: without a credential analyze_deals sends nothing to the provider and
\* returns exactly what the rule engine returns for the records.
C4_NoCredentialIsRuleEngine ==
    (Done("analyze_deals") /\ api_key = "")
        => /\ posts = 0
           /\ result = mock_analysis(call.parsed_data, now)

C4_Witness ==
    /\ Done("analyze_deals") /\ api_key = ""
    /\ ~ProviderFailed(call.provider)
    /\ json_loads(ContentOf(call.provider.body.json).value) = Return(ProviderReport)
    /\ Returned(result) /\ result.value # ProviderReport
    /\ Len(result.value.flagged_deals) = 1
    /\ posts = 0

----------------------------------------------------------------------------
(* Properties of the rule engine *)

\* the rule engine ran on call.parsed_data at instant now and returned
EngineReport == Done("mock_analysis") /\ Returned(result)

SizeOf(deal) == ToFloat(Get(deal, "deal_size", Whole(0))).value
DiscountOf(deal) == ToFloat(Get(deal, "discount_percent", Whole(0))).value
IdOf(deal) == Get(deal, "deal_id", Str(Chars_Unknown))

\* the coerced discount is strictly greater than 20
Over20(deal) == DiscountOf(deal) > 20 * Scale

\* close_date is present, not empty, a date, and strictly before `at`
PastDue(deal, at) ==
    /\ "close_date" \in DOMAIN deal
    /\ deal.close_date # Str(<<>>)
    /\ Returned(to_datetime(deal.close_date))
    /\ to_datetime(deal.close_date).value < at

\* the members of a set of record positions, in increasing order
RECURSIVE Ascending(_)
Ascending(S) ==
    IF S = {} THEN <<>>
    ELSE LET m == CHOOSE x \in S : \A y \in S : y <= x
         IN  Append(Ascending(S \ {m}), m)

IsDiscountFlag(f) == f.risk_type = "unauthorized_discount"
IsPipelineFlag(f) == f.risk_type = "phantom_pipeline"

\* C5: the unauthorized_discount flags are, in order, those of exactly the
\* records whose coerced discount_percent is strictly greater than 20 (a
\* discount of 20 gives none); each carries its record's deal_id and the
\* impact deal_size * (d - 20) / 100.
C5_DiscountRule ==
    EngineReport =>
        LET batch == call.parsed_data
            u == SelectSeq(result.value.flagged_deals, IsDiscountFlag)
            idx == Ascending({i \in 1..Len(batch) : Over20(batch[i])})
        IN  /\ Len(u) = Len(idx)
            /\ \A k \in 1..Len(u) :
                   /\ u[k].deal_id = IdOf(batch[idx[k]])
                   \* in 1/ImpactScale units, ImpactScale = 100 * Scale * Scale
                   /\ u[k].impact
                          = SizeOf(batch[idx[k]])
                                * (DiscountOf(batch[idx[k]]) - 20 * Scale)

C5_Witness ==
    /\ EngineReport
    /\ Len(call.parsed_data) = 2
    /\ DiscountOf(call.parsed_data[1]) = 20 * Scale
    /\ DiscountOf(call.parsed_data[2]) = 20 * Scale + 1
    /\ Len(SelectSeq(result.value.flagged_deals, IsDiscountFlag)) = 1
    /\ result.value.flagged_deals[Len(result.value.flagged_deals)].deal_id
           = Str(Chars("B2"))

RECURSIVE ExpectedOrder(_, _, _)
ExpectedOrder(batch, n, at) ==
    IF n = 0 THEN <<>>
    ELSE ExpectedOrder(batch, n - 1, at)
         \o (IF Over20(batch[n])
             THEN <<[rec |-> n, risk_type |-> "unauthorized_discount"]>>
             ELSE <<>>)
         \o (IF PastDue(batch[n], at)
             THEN <<[rec |-> n, risk_type |-> "phantom_pipeline"]>>
             ELSE <<>>)

\* C7: flagged_deals lists the flags record by record in input order, and
\* for one record unauthorized_discount immediately before phantom_pipeline;
\* nothing is re-sorted.  A single record of deal_size 10000, discount 30
\* and a past close_date gives impacts 1000 then 1000.
C7_EvaluationOrder ==
    EngineReport =>
        LET batch == call.parsed_data
            flags == result.value.flagged_deals
            want == ExpectedOrder(batch, Len(batch), now)
        IN  /\ Len(flags) = Len(want)
            /\ \A k \in 1..Len(flags) :
                   /\ flags[k].risk_type = want[k].risk_type
                   /\ flags[k].deal_id = IdOf(batch[want[k].rec])
            /\ batch = <<Deal(Str(Chars("A1")), Whole(10000), Whole(30),
                              Str(Chars("2020-01-01")))>>
                   => /\ Len(flags) = 2
                      /\ IsDiscountFlag(flags[1]) /\ IsPipelineFlag(flags[2])
                      /\ flags[1].impact = 1000 * ImpactScale
                      /\ flags[2].impact = 1000 * ImpactScale

C7_Witness ==
    /\ EngineReport
    /\ Len(call.parsed_data) = 2
    /\ IdOf(call.parsed_data[1]) # IdOf(call.parsed_data[2])
    /\ Len(result.value.flagged_deals) = 4
    \* neither ascending nor descending by impact, nor grouped by risk type
    /\ result.value.flagged_deals[2].impact < result.value.flagged_deals[1].impact
    /\ result.value.flagged_deals[3].impact > result.value.flagged_deals[2].impact
    /\ IsPipelineFlag(result.value.flagged_deals[2])
    /\ IsDiscountFlag(result.value.flagged_deals[3])

\* the sum of the impacts of a sequence of flags
RECURSIVE TotalImpact(_)
TotalImpact(flags) ==
    IF flags = <<>> THEN 0 ELSE Head(flags).impact + TotalImpact(Tail(flags))

\* C8: in every report of the rule engine total_leakage is the sum of the
\* impacts of flagged_deals, high_risk_deals and issues_found are both the
\* number of flagged_deals, and the empty batch gives no flag and a total 0.
C8_SummaryConsistent ==
    EngineReport =>
        LET flags == result.value.flagged_deals
            summary == result.value.summary
        IN  /\ summary.total_leakage = TotalImpact(flags)
            /\ summary.high_risk_deals = Len(flags)
            /\ summary.issues_found = Len(flags)
            /\ call.parsed_data = <<>> => flags = <<>> /\ summary.total_leakage = 0

C8_Witness ==
    /\ EngineReport
    /\ Len(result.value.flagged_deals) = 3
    /\ IsPipelineFlag(result.value.flagged_deals[3])
    /\ result.value.summary.total_leakage = 2100 * ImpactScale
    /\ result.value.summary.issues_found = 3

----------------------------------------------------------------------------
(* The files handed to the parser *)

RawNames ==
    { "Customer", "customer", "client", "customer_name", "amount", "Deal Size",
      "deal_size", "deal_id", "Deal ID", "notes", "Close" }

Distinct(q) == \A i, j \in 1..Len(q) : q[i] = q[j] => i = j

Headers == UNION {{q \in [1..n -> RawNames] : Distinct(q)} : n \in 1..MaxCols}

Table(header, nrows, delim, wellformed) ==
    [header |-> header, nrows |-> nrows, delim |-> delim, wellformed |-> wellformed]

CsvContents ==
    {Table(h, n, ",", TRUE) : h \in Headers, n \in 0..MaxRows}
    \cup { Table(<<>>, 0, ",", TRUE),
           Table(<<"client", "amount">>, 2, ",", FALSE) }

TxtContents ==
    {Table(h, n, d, TRUE) : h \in {q \in Headers : Len(q) <= 2},
                            n \in 0..MaxRows, d \in {",", "\t"}}
    \cup {Table(<<"notes">>, n, "none", TRUE) : n \in 0..MaxRows}
    \cup { Table(<<>>, 0, "none", TRUE),
           Table(<<"client", "amount">>, 2, ",", FALSE) }

Amounts ==
    { MIN_DEAL_AMOUNT * Scale, MIN_DEAL_AMOUNT * Scale + 1, 2500 * Scale }

PdfContents ==
    {[readable |-> TRUE, amounts |-> a] : a \in SeqsUpTo(Amounts, MaxAmounts)}
    \cup {[readable |-> FALSE, amounts |-> <<>>]}

File(name, suffix, content) ==
    [name |-> name, suffix |-> suffix, content |-> content]

Files ==
    {File("deals.csv", ".csv", c) : c \in CsvContents}
    \cup {File("DEALS.CSV", ".CSV", c) : c \in {x \in CsvContents : Len(x.header) <= 1}}
    \cup {File("deals.txt", ".txt", c) : c \in TxtContents}
    \cup {File("deals.pdf", ".pdf", c) : c \in PdfContents}
    \cup {File("deals.xlsx", ".xlsx", c) : c \in {x \in CsvContents : Len(x.header) <= 1}}

PdfLibs == {"PyPDF2", "pdfplumber", "none"}

----------------------------------------------------------------------------
(* The parser, called once on every file *)

\* the PDF library matters to PDF files only; the other files are parsed
\* with PyPDF2 installed
InitParser ==
    /\ api_key = ""
    /\ now = Now0
    /\ pdf_lib \in PdfLibs
    /\ call \in [op : {"parse_file"}, file : Files]
    /\ SuffixLower(call.file) # ".pdf" => pdf_lib = "PyPDF2"
    /\ posts = 0
    /\ result = Pending
    /\ self = NewApp

ParseFile ==
    /\ result = Pending
    /\ call.op = "parse_file"
    /\ result' = parse_file(pdf_lib, call.file)
    /\ UNCHANGED <<api_key, now, pdf_lib, call, posts, self>>

NextParser == ParseFile

SpecParser == InitParser /\ [][NextParser]_vars

----------------------------------------------------------------------------
(* Properties of the normalizer *)

CanonicalFields ==
    { "deal_id", "customer_name", "deal_size", "discount_percent", "close_date",
      "renewal", "deal_status" }

\* parse_file returned records
Parsed == Done("parse_file") /\ Returned(result)

\* parse_file returned the records of a table: a CSV file, or a text file
\* taken for one
ParsedTable ==
    /\ Parsed
    /\ \/ SuffixLower(call.file) = ".csv"
       \/ /\ SuffixLower(call.file) = ".txt"
          /\ result.value # <<TxtDummy>>

\* the rows of the file under their normalized column names, before alias
\* resolution and default-filling; of several columns of one normalized
\* name the last one counts
InputColumns ==
    [i \in 1..Len(call.file.content.header) |->
        NormalizeName(call.file.content.header[i])]
InputNames == {InputColumns[i] : i \in 1..Len(InputColumns)}
InputRecords ==
    [r \in 1..call.file.content.nrows |->
        [c \in InputNames |->
            Cell(call.file.content.header[
                     CHOOSE i \in 1..Len(InputColumns) :
                         /\ InputColumns[i] = c
                         /\ \A j \in (i + 1)..Len(InputColumns) : InputColumns[j] # c],
                 r)]]

\* C9: every record parse_file returns has all seven canonical fields,
\* whatever columns the input had and whichever path (CSV, CSV-like text,
\* plain text, PDF) produced it.
C9_AllCanonicalFields ==
    Parsed => \A r \in 1..Len(result.value) :
                  CanonicalFields \subseteq DOMAIN result.value[r]

C9_Witness ==
    /\ Parsed
    /\ SuffixLower(call.file) = ".txt"
    /\ call.file.content.delim = "\t"
    /\ call.file.content.header = <<"client", "notes">>
    /\ Len(result.value) = 2
    /\ DOMAIN result.value[2] = CanonicalFields \cup {"notes"}
    /\ result.value[2].deal_id = Str(<<"D", "E", "A", "L", "_", "0", "0", "0", "1">>)

\* C10: when a batch has an alias column and that alias's canonical target
\* column, every row keeps the canonical column's value, the alias's value
\* is not used for it, and the alias column stays under its own name.
C10_DontClobber ==
    ParsedTable =>
        \A k \in 1..Len(COLUMN_MAPPING) :
            LET alias == COLUMN_MAPPING[k][1]
                target == COLUMN_MAPPING[k][2]
            IN  (alias \in InputNames /\ target \in InputNames)
                    => \A r \in 1..Len(result.value) :
                           /\ result.value[r][target] = InputRecords[r][target]
                           /\ alias \in DOMAIN result.value[r]
                           /\ result.value[r][alias] = InputRecords[r][alias]

C10_Witness ==
    /\ ParsedTable
    /\ call.file.content.header = <<"Deal Size", "amount", "client">>
    /\ Len(result.value) = 2
    /\ result.value[2].deal_size = Cell("Deal Size", 2)
    /\ result.value[2].amount = Cell("amount", 2)
    /\ result.value[2].customer_name = Cell("client", 2)
    /\ "client" \notin DOMAIN result.value[2]

\* item k of COLUMN_MAPPING is the first one, in the order of the mapping,
\* whose alias is an input column and whose target is its target
FirstPresentAlias(k) ==
    /\ COLUMN_MAPPING[k][1] \in InputNames
    /\ \A j \in 1..(k - 1) :
           COLUMN_MAPPING[j][2] = COLUMN_MAPPING[k][2]
               => COLUMN_MAPPING[j][1] \notin InputNames

\* C11, as stated: every input column whose name is an alias and whose
\* canonical target is not among the input columns is renamed to the target:
\* each row's canonical field holds the alias column's value and the alias
\* name is gone from the output.
C11_EveryAliasRenamed ==
    ParsedTable =>
        \A k \in 1..Len(COLUMN_MAPPING) :
            LET alias == COLUMN_MAPPING[k][1]
                target == COLUMN_MAPPING[k][2]
            IN  (alias \in InputNames /\ target \notin InputNames)
                    => \A r \in 1..Len(result.value) :
                           /\ result.value[r][target] = InputRecords[r][alias]
                           /\ alias \notin DOMAIN result.value[r]

\* C11, amended: an input column whose name is an alias, whose canonical
\* target is not among the input columns, and which is the first alias of
\* that target in the order of the alias mapping, is renamed to the target:
\* each row's canonical field holds the alias column's value and the alias
\* name is gone from the output.
C11_FirstAliasRenamed ==
    ParsedTable =>
        \A k \in 1..Len(COLUMN_MAPPING) :
            LET alias == COLUMN_MAPPING[k][1]
                target == COLUMN_MAPPING[k][2]
            IN  (FirstPresentAlias(k) /\ target \notin InputNames)
                    => \A r \in 1..Len(result.value) :
                           /\ result.value[r][target] = InputRecords[r][alias]
                           /\ alias \notin DOMAIN result.value[r]

C11_Witness ==
    /\ ParsedTable
    /\ call.file.content.header = <<"notes", "amount", "Close">>
    /\ Len(result.value) = 2
    /\ result.value[1].deal_size = Cell("amount", 1)
    /\ result.value[2].close_date = Cell("Close", 2)
    /\ DOMAIN result.value[2] = CanonicalFields \cup {"notes"}

----------------------------------------------------------------------------
(* gui/main_window.py: the handlers of RevenueWatchdogApp *)

\* A handler's outcome is [self, ended]: the fields of the application when
\* it returns, and what it ended with: the message box it showed and, for
\* upload_files, its locals all_data, successful_files and failed_files.

NoBox == [kind |-> "none"]

\* the first n elements of a list, q[:n]
Take(q, n) == SubSeq(q, 1, IF Len(q) < n THEN Len(q) ELSE n)

\* str.strip(), on the entries of the model
Strip(entry) ==
    CASE entry = "   " -> ""
      [] entry = " sk-or-v1 " -> "sk-or-v1"
      [] OTHER -> entry

\* set_api_key testing the text of the field as it was typed
set_api_key_unstripped(app, key, entry) ==
    LET stripped == Strip(entry)
    IN  IF entry # ""
        THEN [ self |-> [app EXCEPT !.api_configured = TRUE,
                                    !.status_var = "API key configured successfully"],
               api_key |-> stripped,
               ended |-> [messagebox |-> [kind |-> "showinfo", title |-> "Success"]] ]
        ELSE [ self |-> app,
               api_key |-> key,
               ended |-> [messagebox |-> [kind |-> "showwarning", title |-> "Warning"]] ]

\* set_api_key, main_window.py:315-325; entry is the text of the key field
set_api_key(app, key, entry) ==
    LET stripped == Strip(entry)
    IN  IF stripped # ""
        THEN [ self |-> [app EXCEPT !.api_configured = TRUE,
                                    !.status_var = "API key configured successfully"],
               api_key |-> stripped,
               ended |-> [messagebox |-> [kind |-> "showinfo", title |-> "Success"]] ]
        ELSE [ self |-> app,
               api_key |-> key,
               ended |-> [messagebox |-> [kind |-> "showwarning", title |-> "Warning"]] ]

\* the loop stopping at the first file that fails
RECURSIVE UploadLoop_abort(_, _, _, _)
UploadLoop_abort(lib, file_paths, i, acc) ==
    IF i > Len(file_paths) THEN acc
    ELSE LET file_data == parse_file(lib, file_paths[i])
         IN  IF Returned(file_data)
             THEN UploadLoop_abort(lib, file_paths, i + 1,
                      [acc EXCEPT !.all_data = @ \o file_data.value,
                                  !.successful_files = @ + 1])
             ELSE [acc EXCEPT !.failed_files =
                       Append(@, [ name |-> file_paths[i].name,
                                   error |-> file_data.message ])]

\* the loop of main_window.py:355-361 from file i of the selection on; acc
\* holds all_data, successful_files and failed_files
RECURSIVE UploadLoop(_, _, _, _)
UploadLoop(lib, file_paths, i, acc) ==
    IF i > Len(file_paths) THEN acc
    ELSE LET file_data == parse_file(lib, file_paths[i])
         IN  IF Returned(file_data)
             THEN UploadLoop(lib, file_paths, i + 1,
                      [acc EXCEPT !.all_data = @ \o file_data.value,
                                  !.successful_files = @ + 1])
             ELSE UploadLoop(lib, file_paths, i + 1,
                      [acc EXCEPT !.failed_files =
                           Append(@, [ name |-> file_paths[i].name,
                                       error |-> file_data.message ])])

\* upload_files extending parsed_data with the records it loaded
upload_files_accumulating(app, lib, file_paths) ==
    IF file_paths = <<>>
    THEN [self |-> app, ended |-> [messagebox |-> NoBox]]
    ELSE LET done == UploadLoop(lib, file_paths, 1,
                                [ all_data |-> <<>>, successful_files |-> 0,
                                  failed_files |-> <<>> ])
         IN  [ self |-> [app EXCEPT !.parsed_data = @ \o done.all_data],
               ended |-> [ all_data |-> done.all_data,
                           successful_files |-> done.successful_files,
                           failed_files |-> done.failed_files,
                           messagebox |-> NoBox ] ]

\* upload_files, main_window.py:327-386; file_paths is what the file dialog
\* returned, empty when it was cancelled
upload_files(app, lib, file_paths) ==
    IF file_paths = <<>>
    THEN [self |-> app, ended |-> [messagebox |-> NoBox]]
    ELSE LET done == UploadLoop(lib, file_paths, 1,
                                [ all_data |-> <<>>, successful_files |-> 0,
                                  failed_files |-> <<>> ])
             all_data == done.all_data
             successful_files == done.successful_files
             failed_files == done.failed_files
         IN  IF successful_files > 0
             THEN [ self |-> [app EXCEPT
                        !.parsed_data = all_data,
                        !.file_info_label = [ deals |-> Len(all_data),
                                              files |-> successful_files ],
                        !.status_var = "Successfully loaded {len(all_data)} deals"],
                    ended |-> [ all_data |-> all_data,
                                successful_files |-> successful_files,
                                failed_files |-> failed_files,
                                messagebox |->
                                    [ kind |-> "showinfo",
                                      title |-> "Upload Complete",
                                      deals |-> Len(all_data),
                                      files |-> successful_files,
                                      failed |-> Take(failed_files, 3),
                                      more |-> IF Len(failed_files) > 3
                                               THEN Len(failed_files) - 3
                                               ELSE 0 ] ] ]
             ELSE [ self |-> [app EXCEPT
                        !.status_var = "No files could be loaded"],
                    ended |-> [ all_data |-> all_data,
                                successful_files |-> successful_files,
                                failed_files |-> failed_files,
                                messagebox |->
                                    IF failed_files # <<>>
                                    THEN [ kind |-> "showerror",
                                           title |-> "Upload Failed",
                                           failed |-> Take(failed_files, 5) ]
                                    ELSE NoBox ] ]

\* bool(v) of a value json.loads or the rule engine returned
PyTruthy(v) ==
    IF "num" \in DOMAIN v THEN v.num # 0
    ELSE IF "pylist" \in DOMAIN v THEN v.pylist # <<>>
    ELSE DOMAIN v # {}

\* v is a dict: it has the method get
IsDict(v) == "num" \notin DOMAIN v /\ "pylist" \notin DOMAIN v

\* d.get(k, default) of a dict d
DictGet(d, k, default) == IF k \in DOMAIN d THEN d[k] ELSE default

\* display_analysis_results, main_window.py:457-510: the application once
\* the summary pane is rewritten, or the exception of line 462
display_analysis_results(app) ==
    LET results == app.analysis_results
    IN  IF ~PyTruthy(results) THEN Return(app)
        ELSE IF ~IsDict(results) THEN Raise("AttributeError")
        ELSE LET summary == DictGet(results, "summary", <<>>)
                 flagged_deals == DictGet(results, "flagged_deals", <<>>)
                 advice == DictGet(results, "recommendations", <<>>)
             IN  Return([app EXCEPT !.summary_text =
                     [ total_leakage |-> DictGet(summary, "total_leakage", 0),
                       high_risk_deals |-> DictGet(summary, "high_risk_deals", 0),
                       issues_found |-> DictGet(summary, "issues_found", 0),
                       deals_analyzed |-> Len(app.parsed_data),
                       flagged_deals |-> flagged_deals,
                       recommendations |-> advice ]])

\* analyze_data, main_window.py:388-419; provider is what the provider does
\* when it is asked.  ended tells whether analyze_deals was invoked, with
\* which credential and batch, and how it ended
analyze_data(app, key, provider, at) ==
    IF app.parsed_data = <<>>
    THEN [ self |-> app, posts |-> 0,
           ended |-> [ invoked |-> FALSE,
                       messagebox |-> [kind |-> "showwarning", title |-> "No Data"] ] ]
    ELSE IF ~app.api_configured
    THEN [ self |-> app, posts |-> 0,
           ended |-> [ invoked |-> FALSE,
                       messagebox |-> [kind |-> "showwarning", title |-> "API Key Required"] ] ]
    ELSE LET running == [app EXCEPT !.analysis_in_progress = TRUE]
             analysis == analyze_deals(key, running.parsed_data, provider, at)
             failed(a, e) ==
                 [ self |-> [a EXCEPT !.status_var = "Analysis failed",
                                      !.analysis_in_progress = FALSE],
                   posts |-> analysis.posts,
                   ended |-> [ invoked |-> TRUE,
                               api_key |-> key,
                               parsed_data |-> running.parsed_data,
                               analysis |-> analysis.outcome,
                               messagebox |-> [ kind |-> "showerror",
                                                title |-> "Analysis Error",
                                                error |-> e ] ] ]
         IN  IF Raised(analysis.outcome)
             THEN failed(running, analysis.outcome.error)
             ELSE LET assigned == [running EXCEPT
                                      !.analysis_results = analysis.outcome.value]
                      shown == display_analysis_results(assigned)
                  IN  IF Raised(shown)
                      THEN failed(assigned, shown.error)
                      ELSE [ self |-> [shown.value EXCEPT
                                          !.status_var = "Analysis completed successfully",
                                          !.analysis_in_progress = FALSE],
                             posts |-> analysis.posts,
                             ended |-> [ invoked |-> TRUE,
                                         api_key |-> key,
                                         parsed_data |-> running.parsed_data,
                                         analysis |-> analysis.outcome,
                                         messagebox |-> NoBox ] ]

\* str.endswith on the paths of the model
EndsWith(file_path, suffix) ==
    \/ file_path = "report.json" /\ suffix = ".json"
    \/ file_path = "report.csv" /\ suffix = ".csv"

\* export_results, main_window.py:628-658; file_path is what the save
\* dialog returned, "" when it was cancelled.  written is what is put into
\* the file by _export_csv (lines 668-679) or _export_json (lines 699-711)
export_results(app, file_path) ==
    IF ~PyTruthy(app.analysis_results)
    THEN [ self |-> app,
           ended |-> [messagebox |-> [kind |-> "showwarning", title |-> "Warning"]] ]
    ELSE IF file_path = ""
    THEN [self |-> app, ended |-> [messagebox |-> NoBox]]
    ELSE IF ~IsDict(app.analysis_results)
    THEN [ self |-> app,
           ended |-> [messagebox |-> [ kind |-> "showerror",
                                       title |-> "Export Error",
                                       error |-> "AttributeError" ]] ]
    ELSE LET flagged_deals == DictGet(app.analysis_results, "flagged_deals", <<>>)
             summary == DictGet(app.analysis_results, "summary", <<>>)
             written ==
                 IF EndsWith(file_path, ".csv")
                 THEN [ total_leakage |-> DictGet(summary, "total_leakage", 0),
                        high_risk_deals |-> DictGet(summary, "high_risk_deals", 0),
                        flagged_deals |-> flagged_deals ]
                 ELSE [ metadata |->
                            [ total_deals_analyzed |-> Len(app.parsed_data),
                              export_version |-> "1.0" ],
                        analysis_results |-> app.analysis_results ]
         IN  [ self |-> [app EXCEPT !.status_var = "Results exported to {name}"],
               ended |-> [ file_path |-> file_path,
                           written |-> written,
                           messagebox |-> [ kind |-> "showinfo",
                                            title |-> "Export Complete" ] ] ]

----------------------------------------------------------------------------
(* The application, driven by its user *)

\* what the user types into the key field
Entries == {"", "   ", "sk-or-v1", " sk-or-v1 "}

\* the files the user has at hand, in the order the file dialog lists them
AppFiles ==
    << File("d.pdf", ".pdf", [readable |-> TRUE, amounts |-> <<2500 * Scale>>]),
       File("a.csv", ".csv", Table(<<"client", "amount", "discount">>, MaxRows, ",", TRUE)),
       File("c.txt", ".txt", Table(<<"amount", "Close">>, 1, "\t", TRUE)) >>

\* what the file dialog can return: no file, or files chosen once each, in
\* the order of the listing
Selections ==
    UNION {{[i \in 1..n |-> AppFiles[x[i]]] :
               x \in {y \in [1..n -> 1..Len(AppFiles)] :
                          \A i, j \in 1..n : i < j => y[i] < y[j]}} :
           n \in 0..MaxFiles}

InitApp ==
    /\ api_key = ""
    /\ now = Now0
    /\ pdf_lib \in {"PyPDF2", "none"}
    /\ call = [op |-> "__init__"]
    /\ posts = 0
    /\ result = Pending
    /\ self = NewApp

SetApiKey ==
    \E entry \in Entries :
        LET o == set_api_key(self, api_key, entry)
        IN  /\ call' = [op |-> "set_api_key", entry |-> entry]
            /\ api_key' = o.api_key
            /\ self' = o.self
            /\ result' = Return(o.ended)
            /\ UNCHANGED <<now, pdf_lib, posts>>

UploadFiles ==
    \E file_paths \in Selections :
        \E o \in {upload_files(self, pdf_lib, file_paths)} :
            /\ call' = [op |-> "upload_files", file_paths |-> file_paths]
            /\ self' = o.self
            /\ result' = Return(o.ended)
            /\ UNCHANGED <<api_key, now, pdf_lib, posts>>

\* what the provider can do when the application asks it
AppProviders ==
    { Answer(200, Chat(Text("<report>"))),
      Answer(200, Chat(Text("42"))),
      Answer(500, Chat(Text("<report>"))) }

\* what the save dialog can return
SavePaths == {"", "report.json", "report.csv"}

AnalyzeData ==
    \E provider \in AppProviders :
        \E o \in {analyze_data(self, api_key, provider, now)} :
            /\ posts < MaxPosts
            /\ call' = [op |-> "analyze_data", provider |-> provider]
            /\ self' = o.self
            /\ posts' = posts + o.posts
            /\ result' = Return(o.ended)
            /\ UNCHANGED <<api_key, now, pdf_lib>>

ExportResults ==
    \E file_path \in SavePaths :
        \E o \in {export_results(self, file_path)} :
            /\ call' = [op |-> "export_results", file_path |-> file_path]
            /\ self' = o.self
            /\ result' = Return(o.ended)
            /\ UNCHANGED <<api_key, now, pdf_lib, posts>>

NextApp == SetApiKey \/ UploadFiles \/ AnalyzeData \/ ExportResults

SpecApp == InitApp /\ [][NextApp]_vars

----------------------------------------------------------------------------
(* Properties of deal-ID generation *)

\* upload_files ran on a selection of files
Uploaded == Done("upload_files") /\ call.file_paths # <<>>

\* what parsing file f alone gives
Alone(f) == parse_file(pdf_lib, f)

\* the number of records the files before file i of the selection gave
RECURSIVE OffsetOf(_, _)
OffsetOf(file_paths, i) ==
    IF i = 1 THEN 0
    ELSE OffsetOf(file_paths, i - 1)
         + (IF Returned(Alone(file_paths[i - 1]))
            THEN Len(Alone(file_paths[i - 1]).value)
            ELSE 0)

\* f is a table (a CSV file, or a text file taken for one) that parses and
\* has no deal_id column
TableWithoutDealId(f) ==
    /\ SuffixLower(f) \in {".csv", ".txt"}
    /\ Returned(Alone(f))
    /\ Alone(f).value # <<TxtDummy>>
    /\ \A c \in 1..Len(f.content.header) :
           NormalizeName(f.content.header[c]) # "deal_id"

\* DEAL_ and i on four digits, for i below 10
DealIdOf(i) == Str(<<"D", "E", "A", "L", "_", "0", "0", "0", DigitChars[i + 1]>>)

\* C12: in the records of a file of N rows without a deal_id column, the row
\* at position i (from 0, in input order) has deal_id DEAL_ and i on four
\* digits; the count starts again at 0 for every file, so two such files
\* loaded in one upload both give DEAL_0000.
C12_DealIdPerParseCall ==
    (Uploaded /\ result.value.successful_files > 0) =>
        \A k \in 1..Len(call.file_paths) :
            LET f == call.file_paths[k]
            IN  TableWithoutDealId(f) =>
                    \A i \in 0..(f.content.nrows - 1) :
                        self.parsed_data[OffsetOf(call.file_paths, k) + i + 1].deal_id
                            = DealIdOf(i)

C12_Witness ==
    /\ Uploaded
    /\ Len(call.file_paths) = 2
    /\ \A k \in 1..2 : TableWithoutDealId(call.file_paths[k])
    /\ call.file_paths[1].content.nrows >= 2
    /\ self.parsed_data[1].deal_id = DealIdOf(0)
    /\ self.parsed_data[2].deal_id = DealIdOf(1)
    /\ self.parsed_data[Len(self.parsed_data)].deal_id = DealIdOf(0)
    /\ Len(self.parsed_data) = call.file_paths[1].content.nrows + 1

\* C13: the records one parse call returns have pairwise distinct deal_id
\* values.
C13_DealIdsDistinct ==
    Parsed => \A i, j \in 1..Len(result.value) :
                  result.value[i].deal_id = result.value[j].deal_id => i = j

\* the input column named c is renamed by alias resolution
RenamedAlias(c) ==
    \E k \in 1..Len(COLUMN_MAPPING) :
        /\ COLUMN_MAPPING[k][1] = c
        /\ FirstPresentAlias(k)
        /\ COLUMN_MAPPING[k][2] \notin InputNames

\* C14: the normalizer returns as many records as the input has rows, in the
\* order of the rows, and every column that is neither a canonical field nor
\* a renamed alias is in every record under its own name with the value of
\* its row.
C14_RowsAndExtrasKept ==
    ParsedTable =>
        /\ Len(result.value) = call.file.content.nrows
        /\ \A r \in 1..Len(result.value) :
               \A c \in InputNames :
                   (c \notin CanonicalFields /\ ~RenamedAlias(c))
                       => /\ c \in DOMAIN result.value[r]
                          /\ result.value[r][c] = InputRecords[r][c]

C14_Witness ==
    /\ ParsedTable
    /\ call.file.content.header = <<"notes", "customer", "client">>
    /\ Len(result.value) = 2
    /\ result.value[1].notes = Cell("notes", 1)
    /\ result.value[2].notes = Cell("notes", 2)
    /\ result.value[1].notes # result.value[2].notes
    /\ result.value[2].client = Cell("client", 2)

\* C15: the normalizer changes no value of a canonical column of the input,
\* be the value empty or different from the field's default; a batch whose
\* columns are all canonical comes back with its values as they were and
\* with the absent canonical fields added, nothing else.
C15_CanonicalValuesKept ==
    ParsedTable =>
        \A r \in 1..Len(result.value) :
            /\ \A c \in InputNames \cap CanonicalFields :
                   result.value[r][c] = InputRecords[r][c]
            /\ InputNames \subseteq CanonicalFields
                   => DOMAIN result.value[r] = CanonicalFields

C15_Witness ==
    /\ ParsedTable
    /\ call.file.content.header = <<"customer_name", "deal_size", "deal_id">>
    /\ Len(result.value) = 2
    /\ DOMAIN result.value[2] = CanonicalFields
    /\ result.value[2].customer_name = NaN
    /\ result.value[1].customer_name = Str(<<"customer_name", "1">>)
    /\ result.value[1].deal_size = Whole(1003)
    /\ result.value[1].discount_percent = Whole(0)

----------------------------------------------------------------------------
(* Properties of the upload *)

\* the records of the first n selected files that parse, in selection order
RECURSIVE RecordsOfParsed(_, _)
RecordsOfParsed(file_paths, n) ==
    IF n = 0 THEN <<>>
    ELSE RecordsOfParsed(file_paths, n - 1)
         \o (IF Returned(Alone(file_paths[n])) THEN Alone(file_paths[n]).value
             ELSE <<>>)

\* the name and the error text of those of the first n selected files that
\* fail, in selection order
RECURSIVE FailuresOf(_, _)
FailuresOf(file_paths, n) ==
    IF n = 0 THEN <<>>
    ELSE FailuresOf(file_paths, n - 1)
         \o (IF Raised(Alone(file_paths[n]))
             THEN << [ name |-> file_paths[n].name,
                       error |-> Alone(file_paths[n]).message ] >>
             ELSE <<>>)

\* C16: in an upload a file that fails to parse does not stop the files
\* after it: the data loaded is the records of exactly the files that parse,
\* concatenated in selection order, the success count is the number of those
\* files, and every failed file is recorded with its name and its error
\* text; the message box reports the count and the failures.
C16_UploadIsolatesFailures ==
    Uploaded =>
        LET file_paths == call.file_paths
            n == Len(file_paths)
            parsed == {k \in 1..n : Returned(Alone(file_paths[k]))}
            ended == result.value
        IN  /\ ended.all_data = RecordsOfParsed(file_paths, n)
            /\ ended.successful_files = Cardinality(parsed)
            /\ ended.failed_files = FailuresOf(file_paths, n)
            /\ parsed # {} =>
                   /\ self.parsed_data = RecordsOfParsed(file_paths, n)
                   /\ ended.messagebox.kind = "showinfo"
                   /\ ended.messagebox.files = Cardinality(parsed)
                   /\ ended.messagebox.deals = Len(self.parsed_data)
                   /\ Len(ended.failed_files) <= 3
                          => ended.messagebox.failed = FailuresOf(file_paths, n)
            /\ parsed = {} =>
                   /\ ended.messagebox.kind = "showerror"
                   /\ Len(ended.failed_files) <= 5
                          => ended.messagebox.failed = FailuresOf(file_paths, n)

C16_Witness ==
    /\ Uploaded
    /\ Len(call.file_paths) = 2
    /\ Raised(Alone(call.file_paths[1]))
    /\ Returned(Alone(call.file_paths[2]))
    /\ result.value.successful_files = 1
    /\ Len(result.value.failed_files) = 1
    /\ result.value.failed_files[1].name = call.file_paths[1].name
    /\ self.parsed_data = Alone(call.file_paths[2]).value
    /\ self.parsed_data # <<>>

----------------------------------------------------------------------------
(* Further properties of the rule engine *)

\* the rule engine ran on call.parsed_data at instant now
EngineRan == Done("mock_analysis")

RawSize(deal) == Get(deal, "deal_size", Whole(0))
RawDiscount(deal) == Get(deal, "discount_percent", Whole(0))

\* float() fails on the record's deal_size or on its discount_percent
Uncoercible(deal) ==
    Raised(ToFloat(RawSize(deal))) \/ Raised(ToFloat(RawDiscount(deal)))

\* a table holding deal_size and discount_percent of the records of a batch
FrameOf(batch) ==
    [ columns |-> <<"deal_size", "discount_percent">>,
      rows |-> [i \in 1..Len(batch) |->
                   <<RawSize(batch[i]), RawDiscount(batch[i])>>] ]

\* C17: when deal_size or discount_percent of some record cannot be coerced
\* to a number, the rule engine raises the ValueError of the first such
\* record in input order (of its deal_size before its discount_percent) and
\* returns no report, whatever the records before it flagged and whether or
\* not that record would trigger a rule; the normalizer passes such values
\* on as they are, without an error.
C17_CoercionAborts ==
    EngineRan =>
        LET batch == call.parsed_data
            bad == {i \in 1..Len(batch) : Uncoercible(batch[i])}
        IN  /\ bad # {} =>
                   LET first == CHOOSE i \in bad : \A j \in bad : i <= j
                       value == IF Raised(ToFloat(RawSize(batch[first])))
                                THEN RawSize(batch[first])
                                ELSE RawDiscount(batch[first])
                   IN  /\ Raised(result)
                       /\ result.error = "ValueError"
                       /\ result.message = value
            /\ bad = {} => Returned(result)
            /\ LET normalized == Normalize(FrameOf(batch))
               IN  \A i \in 1..Len(batch) :
                       /\ normalized[i].deal_size = RawSize(batch[i])
                       /\ normalized[i].discount_percent = RawDiscount(batch[i])

C17_Witness ==
    /\ EngineRan
    /\ Len(call.parsed_data) = 2
    /\ ~Uncoercible(call.parsed_data[1])
    /\ Over20(call.parsed_data[1]) /\ PastDue(call.parsed_data[1], now)
    /\ Returned(ToFloat(RawSize(call.parsed_data[2])))
    /\ Raised(ToFloat(RawDiscount(call.parsed_data[2])))
    /\ ~PastDue(call.parsed_data[2], now)
    /\ Raised(result)
    /\ result.message = Str(Chars("x"))
    /\ Normalize(FrameOf(call.parsed_data))[2].discount_percent = Str(Chars("x"))

\* what an engine invoked for the first time returns: the loop over the
\* batch, started with no flag and a total of 0
FirstInvocation(batch, at) == MockLoop(batch, 1, <<>>, 0, at)

C19_FixedRecommendations ==
    EngineReport =>
        /\ Len(result.value.recommendations) = 3
        /\ result.value.recommendations
               = << "Implement discount approval workflow",
                    "Set up automated pipeline hygiene alerts",
                    "Review pricing strategy for renewals" >>

C19_Witness ==
    /\ EngineReport
    /\ Len(call.parsed_data) = 1
    /\ result.value.flagged_deals = <<>>
    /\ result.value.summary.total_leakage = 0
    /\ result.value.recommendations[3] = "Review pricing strategy for renewals"

----------------------------------------------------------------------------
(* Properties of competing aliases *)

\* the items of COLUMN_MAPPING whose target is `target` and whose alias is an
\* input column
PresentAliases(target) ==
    {k \in 1..Len(COLUMN_MAPPING) :
        COLUMN_MAPPING[k][2] = target /\ COLUMN_MAPPING[k][1] \in InputNames}

\* the frame of which the records returned are the rows
OutputFrame ==
    FillDefaults(
        MapAliases([read_csv(call.file.content).value
                        EXCEPT !.columns = InputColumns], 1), 1)

\* C20: when two or more aliases of one canonical target are input columns
\* and the target is not, the alias that comes first in the alias mapping,
\* and no other, is renamed to the target: the records hold its values
\* under the target's name and no longer have its name, and hold the later
\* aliases under their own names with their own values.  No record has a
\* name twice; the frame behind the records has no column name twice either
\* when the normalized names of the input are pairwise distinct.
C20_FirstAliasWins ==
    ParsedTable =>
        \A t \in 1..Len(COLUMN_MAPPING) :
            LET target == COLUMN_MAPPING[t][2]
                present == PresentAliases(target)
                first == CHOOSE k \in present : \A j \in present : k <= j
            IN  (Cardinality(present) >= 2 /\ target \notin InputNames) =>
                    /\ \A r \in 1..Len(result.value) :
                           /\ result.value[r][target]
                                  = InputRecords[r][COLUMN_MAPPING[first][1]]
                           /\ COLUMN_MAPPING[first][1] \notin DOMAIN result.value[r]
                           /\ \A k \in present \ {first} :
                                  /\ COLUMN_MAPPING[k][1] \in DOMAIN result.value[r]
                                  /\ result.value[r][COLUMN_MAPPING[k][1]]
                                         = InputRecords[r][COLUMN_MAPPING[k][1]]
                    /\ Distinct(InputColumns) =>
                           /\ Distinct(OutputFrame.columns)
                           /\ \A r \in 1..Len(result.value) :
                                  Cardinality(DOMAIN result.value[r])
                                      = Len(OutputFrame.columns)

C20_Witness ==
    /\ ParsedTable
    /\ call.file.content.header = <<"client", "customer", "notes">>
    /\ Len(result.value) = 2
    /\ result.value[2].customer_name = Cell("customer", 2)
    /\ result.value[2].client = Cell("client", 2)
    /\ "customer" \notin DOMAIN result.value[2]
    /\ Distinct(OutputFrame.columns)

----------------------------------------------------------------------------
(* Properties of the sign of the impacts *)

\* C24: the rule engine takes a negative deal_size as it takes any number.
\* In its report every flag of a record with a negative deal_size has a
\* negative impact and every flag of a record with deal_size 0 or more has
\* an impact of 0 or more; so when no deal_size of the batch is negative, no
\* impact is and total_leakage is not.
C24_ImpactSign ==
    EngineRan =>
        LET batch == call.parsed_data
            want == ExpectedOrder(batch, Len(batch), now)
        IN  /\ (\A i \in 1..Len(batch) : ~Uncoercible(batch[i])) => Returned(result)
            /\ Returned(result) =>
                   LET flags == result.value.flagged_deals
                   IN  /\ Len(flags) = Len(want)
                       /\ \A k \in 1..Len(flags) :
                              IF SizeOf(batch[want[k].rec]) < 0
                              THEN flags[k].impact < 0
                              ELSE flags[k].impact >= 0
                       /\ (\A i \in 1..Len(batch) : SizeOf(batch[i]) >= 0)
                              => /\ \A k \in 1..Len(flags) : flags[k].impact >= 0
                                 /\ result.value.summary.total_leakage >= 0

C24_Witness ==
    /\ EngineReport
    /\ Len(call.parsed_data) = 2
    /\ SizeOf(call.parsed_data[1]) > 0
    /\ SizeOf(call.parsed_data[2]) < 0
    /\ Len(result.value.flagged_deals) = 4
    /\ result.value.flagged_deals[1].impact > 0
    /\ result.value.flagged_deals[3].impact < 0
    /\ result.value.flagged_deals[4].impact < 0
    /\ result.value.summary.total_leakage > 0

----------------------------------------------------------------------------
(* Properties of the application's handlers *)

\* analyze_data ended, after it invoked analyze_deals or without doing so
Analyzed == Done("analyze_data")

\* C21: in every state of the application api_configured is true exactly
\* when the dispatcher's api_key is not empty; no step takes api_configured
\* from true to false; and a step of analyze_data that invokes analyze_deals
\* starts with api_configured true, a non-empty parsed_data and a non-empty
\* api_key, passes that batch and sends a request to the provider.
C21_CredentialBeforeAnalysis ==
    /\ [](self.api_configured <=> api_key # "")
    /\ [][self.api_configured => self'.api_configured]_vars
    /\ [][(call'.op = "analyze_data" /\ result'.value.invoked)
             => \/ UNCHANGED vars
                \/ /\ self.api_configured
                   /\ self.parsed_data # <<>>
                   /\ api_key # ""
                   /\ result'.value.api_key = api_key
                   /\ result'.value.parsed_data = self.parsed_data
                   /\ posts' = posts + 1]_vars

C21_Witness ==
    /\ Analyzed
    /\ result.value.invoked
    /\ result.value.api_key = "sk-or-v1"
    /\ result.value.parsed_data # <<>>
    /\ Returned(result.value.analysis)
    /\ self.api_configured
    /\ posts = 1

\* export_results wrote a JSON file
ExportedJson ==
    /\ Done("export_results")
    /\ "written" \in DOMAIN result.value
    /\ call.file_path = "report.json"

\* the deal_id values of the records of a batch
DealIds(batch) == {IdOf(batch[i]) : i \in 1..Len(batch)}

\* the records of the first n of the outcomes parsed, those of the files that
\* parse, in order
RECURSIVE Loaded(_, _)
Loaded(parsed, n) ==
    IF n = 0 THEN <<>>
    ELSE Loaded(parsed, n - 1)
         \o (IF Returned(parsed[n]) THEN parsed[n].value ELSE <<>>)

\* C22: a step of upload_files in which a file parses leaves in parsed_data
\* the records of the files of this selection that parse, in selection
\* order, and nothing of what was there before; a step in which the dialog
\* is cancelled or every file fails leaves parsed_data as it was; no step of
\* upload_files changes analysis_results.  A JSON export writes
\* analysis_results as it is, whichever batch it was computed from, with
\* the length of the current parsed_data as total_deals_analyzed.
C22_UploadReplacesBatchOnly ==
    /\ [][call'.op = "upload_files"
             => LET file_paths == call'.file_paths
                    n == Len(file_paths)
                    parsed == [k \in 1..n |-> Alone(file_paths[k])]
                IN  /\ self'.analysis_results = self.analysis_results
                    /\ IF \E k \in 1..n : Returned(parsed[k])
                       THEN self'.parsed_data = Loaded(parsed, n)
                       ELSE self'.parsed_data = self.parsed_data]_vars
    /\ [][call'.op = "export_results"
             => /\ self'.analysis_results = self.analysis_results
                /\ self'.parsed_data = self.parsed_data]_vars
    /\ [][ExportedJson'
             => /\ result'.value.written.analysis_results = self'.analysis_results
                /\ result'.value.written.metadata.total_deals_analyzed
                       = Len(self'.parsed_data)]_vars

\* a report flagging a deal of an earlier batch is exported with the record
\* count of the batch loaded after it, which has no deal of that id
C22_Witness ==
    /\ ExportedJson
    /\ self.parsed_data # <<>>
    /\ result.value.written.metadata.total_deals_analyzed = Len(self.parsed_data)
    /\ \E k \in 1..Len(AppFiles) :
           /\ Returned(Alone(AppFiles[k]))
           /\ Returned(mock_analysis(Alone(AppFiles[k]).value, now))
           /\ result.value.written.analysis_results
                  = mock_analysis(Alone(AppFiles[k]).value, now).value
    /\ result.value.written.analysis_results.flagged_deals # <<>>
    /\ \A k \in 1..Len(result.value.written.analysis_results.flagged_deals) :
           result.value.written.analysis_results.flagged_deals[k].deal_id
               \notin DealIds(self.parsed_data)

\* analyze_data ended in its except branch, main_window.py:412-414
AnalysisFailed ==
    /\ Analyzed
    /\ result.value.invoked
    /\ result.value.messagebox.kind = "showerror"

\* C23: analysis_in_progress is false before and after every step of the
\* application.  A step of analyze_data that a guard rejects changes
\* nothing of the application; one that ends in the except branch leaves
\* analysis_results as it was; one that ends without an error leaves in
\* analysis_results what analyze_deals returned and nothing else.
C23_FlagAndResults ==
    /\ [][~self.analysis_in_progress /\ ~self'.analysis_in_progress]_vars
    /\ [][call'.op = "analyze_data"
             => IF ~result'.value.invoked
                THEN self' = self
                ELSE IF result'.value.messagebox.kind = "showerror"
                THEN self'.analysis_results = self.analysis_results
                ELSE /\ Returned(result'.value.analysis)
                     /\ self'.analysis_results = result'.value.analysis.value]_vars

====
